---- MODULE Spec2Model ----
(***************************************************************************)
(* FloatingDirective of ng-floating-ui (guarded revision): one directive   *)
(* instance on one trigger element, the document body that receives its    *)
(* panel nodes, the long-press timers it arms and the computePosition      *)
(* promises its autoUpdate subscription starts.                            *)
(*                                                                         *)
(* DOM nodes, timers and subscriptions are tracked by role, not by         *)
(* identity: the object a field of the directive currently references      *)
(* ("attached"/"removed", "pending"/"expired", "active"/"cancelled", ...)  *)
(* and a count of the objects of the same kind that no field references    *)
(* any more.                                                               *)
(*                                                                         *)
(* Spec is the life of one instance. OptionsSpec injects the global        *)
(* options for every provider a caller can register, ArrowSpec positions   *)
(* the arrow for every result of computePosition, PairSpec runs two        *)
(* instances that share one document body, PipelineSpec builds the         *)
(* positioning configuration of a render for every binding of its inputs,  *)
(* and LegacySpec is the life of an instance of the earlier revision.      *)
(***************************************************************************)
EXTENDS Integers, Sequences, FiniteSets, TLC

\* Number of setupListeners() runs explored per instance (each run appends
\* a fresh set of closures to eventListeners).
MaxSetups == 3

\* Largest value a caller supplies for a field of the global options.
MaxOverride == 8

\* Largest arrow coordinate the positioning engine returns.
MaxCoord == 2

\* Number of setupListeners() runs explored per instance when two instances
\* share a document.
MaxPairSetups == 2

\* Largest number a host binds to the offset input.
MaxOffset == 6

\* Largest number of panel nodes of one instance explored for the revision
\* without visibility guard.
MaxPanels == 3

VARIABLES
  dir,     \* the fields of the directive instance and of the objects it owns
  lastOp,  \* the operation performed by the last step
  wrote,   \* what the last step wrote coordinates to: "none", "attached", "removed"
  options, \* the provider of FLOATING_UI_OPTIONS and the value injected from it
  arrow,   \* the arrow element of a panel: its style and the last positioning result
  pair,    \* two directive instances on different triggers and the body they share
  pipeline, \* the inputs of one render() and the positioning configuration it builds
  legacy   \* an instance of the earlier revision, whose show() and hide() are unguarded

vars == <<dir, lastOp, wrote, options, arrow, pair, pipeline, legacy>>

Triggers == {"hover", "click"}

Contents == {"template", "text"}

GestureEvents ==
  {"focus", "blur", "mouseenter", "mouseleave", "wheel", "click",
   "touchstart", "touchend", "touchcancel"}

--------------------------------------------------------------------------
\* Timers

\* Number of long-press timers that are armed and have not fired.
PendingTimers(s) ==
  (IF s.touchstartTimeout = "pending" THEN 1 ELSE 0) + s.orphanTimers

\* clearTimeout(this.touchstartTimeout)
clearTimeout(s) ==
  IF s.touchstartTimeout = "pending"
    THEN [s EXCEPT !.touchstartTimeout = "expired"]
    ELSE s

\* this.touchstartTimeout = setTimeout(() => this.show(), longPressDelay)
setTimeout(s) ==
  [s EXCEPT !.touchstartTimeout = "pending",
            !.orphanTimers = IF s.touchstartTimeout = "pending" THEN @ + 1 ELSE @]

--------------------------------------------------------------------------
\* Panel construction and teardown

\* ViewRef.destroy() on the view embdedViewRef references; a call on a view
\* that is already destroyed is counted in `redone`.
destroyView(s) ==
  CASE s.embdedViewRef = "undefined" -> s
    [] s.embdedViewRef = "live" -> [s EXCEPT !.embdedViewRef = "destroyed"]
    [] s.embdedViewRef = "destroyed" -> [s EXCEPT !.redone = @ + 1]

cleanup_skipped(s) == s

\* The cleanup function autoUpdate returned; a call after the subscription
\* was cancelled is counted in `redone`.
cleanup(s) ==
  CASE s.cleanupFn = "undefined" -> s
    [] s.cleanupFn = "active" -> [s EXCEPT !.cleanupFn = "cancelled"]
    [] s.cleanupFn = "cancelled" -> [s EXCEPT !.redone = @ + 1]

\* tooltipElRef.remove()
removePanel(s) ==
  IF s.tooltipElRef = "attached"
    THEN [s EXCEPT !.tooltipElRef = "removed", !.bodyPanels = @ - 1]
    ELSE s

destroy_keepsPanel(s) ==
  clearTimeout(cleanup(destroyView(s)))

\* destroy(): embdedViewRef.destroy(), componentRef.destroy() (componentRef is
\* never assigned in this revision), tooltipElRef.remove(), cleanupFn(),
\* clearTimeout(touchstartTimeout). No field is reset.
destroy(s) ==
  clearTimeout(cleanup(removePanel(destroyView(s))))

\* createElement(): a new panel node, with an embedded view for template
\* content, appended to document.body.
createElement(s) ==
  [s EXCEPT !.embdedViewRef = IF s.content = "template" THEN "live" ELSE @,
            !.bodyPanels = @ + 1,
            !.created = @ + 1]

\* render(): createElement(), then autoUpdate() subscribes the new node and
\* runs its update callback once, which requests a computePosition; then
\* tooltipElRef is set to the new node. A node or subscription the fields
\* referenced before is no longer referenced afterwards.
render(s) ==
  LET s1 == createElement(s)
  IN  [s1 EXCEPT !.orphanSubs = IF s.cleanupFn = "active" THEN @ + 1 ELSE @,
                 !.cleanupFn = "active",
                 !.pendingOrphan = @ \/ s.pendingRef,
                 !.pendingRef = TRUE,
                 !.tooltipElRef = "attached"]

--------------------------------------------------------------------------
\* Public API

show_unguarded(s) ==
  render(destroy([s EXCEPT !.isVisible = TRUE]))

show(s) ==
  IF s.isVisible THEN s
  ELSE render(destroy([s EXCEPT !.isVisible = TRUE]))

hide(s) ==
  IF ~s.isVisible THEN s
  ELSE destroy([s EXCEPT !.isVisible = FALSE])

toggle(s) ==
  IF s.isVisible THEN hide(s) ELSE show(s)

--------------------------------------------------------------------------
\* Listener registration

addListener(s, event) ==
  [s EXCEPT !.eventListeners = Append(@, event)]

setupFocusAndBlurEvents(s) ==
  addListener(addListener(s, "focus"), "blur")

setupClickEvents_withBlur(s) ==
  addListener(addListener(s, "click"), "blur")

setupClickEvents(s) ==
  addListener(s, "click")

setupMouseEvents(s) ==
  addListener(addListener(addListener(s, "mouseenter"), "mouseleave"), "wheel")

disableNativeGestures(s) ==
  [s EXCEPT !.nativeGestures = FALSE]

setupTouchEvents(s) ==
  addListener(addListener(addListener(disableNativeGestures(s),
    "touchstart"), "touchend"), "touchcancel")

\* Every entry of eventListeners, old and new, is passed to addEventListener.
setupListeners(s) ==
  LET s1 == IF s.trigger = "click" THEN setupClickEvents(s)
            ELSE IF s.supportsMouseEvents
              THEN setupMouseEvents(setupFocusAndBlurEvents(s))
              ELSE setupTouchEvents(setupFocusAndBlurEvents(s))
  IN  [s1 EXCEPT !.attached = @ \cup DOMAIN s1.eventListeners]

removeListeners_keepsAll(s) == s

removeListeners(s) ==
  [s EXCEPT !.attached = @ \ DOMAIN s.eventListeners]

\* Number of setupListeners() runs so far: each adds one click or one focus entry.
NumSetups(s) ==
  Cardinality({i \in DOMAIN s.eventListeners :
                 s.eventListeners[i] \in {"click", "focus"}})

--------------------------------------------------------------------------
\* Lifecycle hooks

ngAfterViewInit_ignoresManual(s) ==
  IF s.isServer \/ s.disabled THEN s
  ELSE setupListeners(s)

ngAfterViewInit(s) ==
  IF s.manual \/ s.isServer \/ s.disabled THEN s
  ELSE setupListeners(s)

\* ngOnChanges for a change of `disabled` that is not the first one; s.disabled
\* already holds the new value.
ngOnChanges(s) ==
  IF s.manual \/ s.isServer THEN s
  ELSE IF s.disabled
    THEN removeListeners(IF s.isVisible THEN destroy(s) ELSE s)
    ELSE setupListeners(s)

ngOnDestroy_keepsListeners(s) ==
  destroy(s)

ngOnDestroy(s) ==
  removeListeners(destroy(s))

--------------------------------------------------------------------------
\* Gesture handlers

\* The wheel handler; `over` says whether the element under the pointer is the
\* trigger or a descendant of it.
wheelListener_ignoresPointer(s, over) ==
  IF s.isVisible THEN hide(s) ELSE s

wheelListener(s, over) ==
  IF s.isVisible /\ ~over THEN hide(s) ELSE s

touchstartListener(s) ==
  setTimeout(clearTimeout(s))

touchendListener_keepsTimer(s) ==
  hide(s)

touchendListener(s) ==
  hide(clearTimeout(s))

\* The closure registered for `event`, whichever setupListeners() run made it.
Handler(s, event, over) ==
  CASE event = "focus" -> show(s)
    [] event = "blur" -> hide(s)
    [] event = "click" -> toggle(s)
    [] event = "mouseenter" -> show(s)
    [] event = "mouseleave" -> hide(s)
    [] event = "wheel" -> wheelListener(s, over)
    [] event = "touchstart" -> touchstartListener(s)
    [] event = "touchend" -> touchendListener(s)
    [] event = "touchcancel" -> touchendListener(s)

\* The handlers of `event` attached to the trigger element.
Listening(s, event) ==
  {i \in s.attached : s.eventListeners[i] = event}

RECURSIVE RunFrom(_, _, _, _)
RunFrom(s, i, event, over) ==
  IF i > Len(s.eventListeners) THEN s
  ELSE RunFrom(IF i \in Listening(s, event) THEN Handler(s, event, over) ELSE s,
               i + 1, event, over)

\* The browser dispatches `event` on the trigger element: the attached handlers
\* run one after the other, in the order they were attached.
Dispatch(s, event, over) ==
  RunFrom(s, 1, event, over)

--------------------------------------------------------------------------
\* Global options

OptionFields == {"arrowHeight", "arrowPadding", "longPressDelay"}

DEFAULT_OPTIONS ==
  [arrowHeight |-> 4, arrowPadding |-> 5, longPressDelay |-> 500]

\* Object spread { ...a, ...b }: the own fields of both, b's value where both
\* have the field.
spread(a, b) ==
  [k \in DOMAIN a \cup DOMAIN b |-> IF k \in DOMAIN b THEN b[k] ELSE a[k]]

provideFloatingUiOptions_overridesOnly(overrides) ==
  overrides

\* The useValue of the provider provideFloatingUiOptions(overrides) returns.
provideFloatingUiOptions(overrides) ==
  spread(DEFAULT_OPTIONS, overrides)

\* inject(FLOATING_UI_OPTIONS): the provider's value, or the token's factory
\* when no provider is registered.
inject(provided, overrides) ==
  IF provided THEN provideFloatingUiOptions(overrides) ELSE DEFAULT_OPTIONS

\* The override objects a caller passes: any subset of the fields, each with
\* a value.
Overrides ==
  UNION {[fields -> 0..MaxOverride] : fields \in SUBSET OptionFields}

NoFields == [k \in {} |-> 0]

Options(provided, overrides) ==
  [provided |-> provided, overrides |-> overrides,
   injected |-> NoFields, done |-> FALSE]

InitOptions ==
  {Options(TRUE, o) : o \in Overrides} \cup {Options(FALSE, NoFields)}

--------------------------------------------------------------------------
\* Arrow positioning

\* Strings the code takes apart are sequences of characters.
top == <<"t", "o", "p">>
right == <<"r", "i", "g", "h", "t">>
bottom == <<"b", "o", "t", "t", "o", "m">>
left == <<"l", "e", "f", "t">>

Sides == {top, right, bottom, left}

Alignments == {<<>>, <<"-", "s", "t", "a", "r", "t">>, <<"-", "e", "n", "d">>}

\* The placements computePosition returns.
Placements == {side \o alignment : side \in Sides, alignment \in Alignments}

\* String.prototype.split(separator)
RECURSIVE split(_, _)
split(str, separator) ==
  IF str = <<>> THEN << <<>> >>
  ELSE LET rest == split(Tail(str), separator)
       IN  IF Head(str) = separator
             THEN << <<>> >> \o rest
             ELSE << <<Head(str)>> \o Head(rest) >> \o Tail(rest)

\* Style values: '' is the empty sequence, `${n}px` and `-${n}px` carry their
\* sign.
Px(n) == <<"", n, "px">>
NegPx(n) == <<"-", n, "px">>

\* The coordinates of middlewareData.arrow: absent or a number.
Coords == {<<>>} \cup {<<n>> : n \in 0..MaxCoord}

EmptyStyle == [k \in {"left", "top", "right", "bottom"} |-> <<>>]

\* The property name the lookup { top: 'bottom', ... }[tooltipSide] yields.
arrowSideOf(tooltipSide) ==
  CASE tooltipSide = top -> "bottom"
    [] tooltipSide = right -> "left"
    [] tooltipSide = bottom -> "top"
    [] tooltipSide = left -> "right"
    [] OTHER -> "undefined"

sameSideOf(tooltipSide) ==
  CASE tooltipSide = top -> "top"
    [] tooltipSide = right -> "right"
    [] tooltipSide = bottom -> "bottom"
    [] tooltipSide = left -> "left"
    [] OTHER -> "undefined"

\* Object.assign(arrowEl.style, {left, top, right: '', bottom: '',
\* [arrowSide]: `-${arrowHeight}px`}); the computed key comes last and wins.
assignArrowStyle(style, arrowSide, arrowX, arrowY, arrowHeight) ==
  LET sides == [left |-> IF arrowX # <<>> THEN Px(arrowX[1]) ELSE <<>>,
                top |-> IF arrowY # <<>> THEN Px(arrowY[1]) ELSE <<>>,
                right |-> <<>>,
                bottom |-> <<>>]
      source == [k \in DOMAIN sides \cup {arrowSide} |->
                   IF k = arrowSide THEN NegPx(arrowHeight) ELSE sides[k]]
  IN  spread(style, source)

setArrowPosition_sameSide(style, tooltipSide, arrowX, arrowY, arrowHeight) ==
  assignArrowStyle(style, sameSideOf(tooltipSide), arrowX, arrowY, arrowHeight)

setArrowPosition(style, tooltipSide, arrowX, arrowY, arrowHeight) ==
  assignArrowStyle(style, arrowSideOf(tooltipSide), arrowX, arrowY, arrowHeight)

\* The arrow part of setTooltipPosition, run with the result of
\* computePosition.
positionArrow(a, placement, arrowX, arrowY) ==
  LET tooltipSide == split(placement, "-")[1]
  IN  [a EXCEPT !.placement = placement, !.x = arrowX, !.y = arrowY,
                !.style = setArrowPosition(a.style, tooltipSide, arrowX,
                                           arrowY, a.arrowHeight),
                !.positioned = TRUE]

Arrow(arrowHeight) ==
  [arrowHeight |-> arrowHeight, style |-> EmptyStyle, placement |-> <<>>,
   x |-> <<>>, y |-> <<>>, positioned |-> FALSE]

\* An arrow for every arrowHeight a configuration can carry.
InitArrows ==
  {Arrow(inject(TRUE, o).arrowHeight) : o \in Overrides}

--------------------------------------------------------------------------
\* Middleware pipeline

\* The values a host binds to the offset input: undefined, a number, or an
\* options object or function.
Undefined == [type |-> "undefined", value |-> 0]
Number(n) == [type |-> "number", value |-> n]
ObjectValue == [type |-> "object", value |-> 0]

OffsetInputs == {Undefined, ObjectValue} \cup {Number(n) : n \in -1..MaxOffset}

\* if (value): undefined and 0 are falsy, other numbers and every object
\* are truthy.
truthy(v) ==
  CASE v.type = "undefined" -> FALSE
    [] v.type = "number" -> v.value # 0
    [] OTHER -> TRUE

middleware_offsetLast(offset, showArrow) ==
  LET base == <<"flip", "shift">>
      withArrow == IF showArrow THEN Append(base, "arrow") ELSE base
  IN  IF truthy(offset) THEN Append(withArrow, "offset") ELSE withArrow

\* The middleware array render() builds: [flip(), shift()], offset unshifted
\* to the front, arrow pushed to the back.
middleware(offset, showArrow) ==
  LET base == <<"flip", "shift">>
      withOffset == IF truthy(offset) THEN <<"offset">> \o base ELSE base
  IN  IF showArrow THEN Append(withOffset, "arrow") ELSE withOffset

\* The children createElement(createArrow) appends to the panel element.
panelChildren(createArrow) ==
  IF createArrow THEN <<"arrow", "content">> ELSE <<"content">>

renderPipeline(p) ==
  [p EXCEPT !.children = panelChildren(p.showArrow),
            !.middleware = middleware(p.offset, p.showArrow),
            !.configPlacement = p.placement,
            !.rendered = TRUE]

Pipeline(offset, showArrow, placement) ==
  [offset |-> offset, showArrow |-> showArrow, placement |-> placement,
   children |-> <<>>, middleware |-> <<>>, configPlacement |-> <<>>,
   rendered |-> FALSE]

--------------------------------------------------------------------------
\* State machine

\* The record of a step from state `before` to state `after`: the operation,
\* the event dispatched (if any), the pointer position of a wheel event,
\* whether the step mounted a panel in a document that held none of this
\* instance, the visibility flag and the number of attached panels before the
\* step, the number of panel nodes the step created and the number of teardown calls it repeated on an
\* already destroyed view or an already cancelled subscription.
Op(name, event, over, before, after) ==
  [name |-> name, event |-> event, over |-> over,
   mounted |-> before.bodyPanels = 0 /\ after.bodyPanels > 0,
   wasVisible |-> before.isVisible,
   hadPanels |-> before.bodyPanels,
   created |-> after.created,
   redone |-> after.redone]

InitialDirective(trigger, content, manual, disabled, isServer, mouse) ==
  [trigger |-> trigger, content |-> content, manual |-> manual,
   disabled |-> disabled, isServer |-> isServer,
   supportsMouseEvents |-> mouse,
   phase |-> "constructed",
   isVisible |-> FALSE,
   tooltipElRef |-> "undefined",
   embdedViewRef |-> "undefined",
   cleanupFn |-> "undefined",
   eventListeners |-> <<>>,
   touchstartTimeout |-> "undefined",
   attached |-> {},
   nativeGestures |-> TRUE,
   bodyPanels |-> 0,
   orphanTimers |-> 0,
   orphanSubs |-> 0,
   pendingRef |-> FALSE,
   pendingOrphan |-> FALSE,
   created |-> 0,
   redone |-> 0]

\* The state after construction and the first input binding (ngOnChanges
\* ignores a first change of `disabled`).
\* Two instances on different trigger elements of one document: the fields
\* of each, the panel nodes in document.body by the instance that appended
\* them, and the instance the last step ran on.
Instances == {"A", "B"}

Other(i) == IF i = "A" THEN "B" ELSE "A"

Pair(a, b) == [A |-> a, B |-> b, body |-> <<>>, actor |-> "none"]

TouchDirective(content) ==
  InitialDirective("hover", content, FALSE, FALSE, FALSE, FALSE)

\* An instance of the earlier revision, whether its trigger element has the
\* focus and the pointer over it, and the last gesture event it handled with
\* the number of its panels in the document before that event.
Legacy(content, mouse) ==
  [dir |-> InitialDirective("hover", content, FALSE, FALSE, FALSE, mouse),
   focused |-> FALSE, hovered |-> FALSE,
   event |-> "none", hadPanels |-> 0]

Init ==
  /\ dir \in {InitialDirective(t, c, m, d, sv, ms) :
                t \in Triggers, c \in Contents, m \in BOOLEAN, d \in BOOLEAN,
                sv \in BOOLEAN, ms \in BOOLEAN}
  /\ lastOp \in {Op("init", "", FALSE, dir, dir)}
  /\ wrote = "none"
  /\ options = Options(FALSE, NoFields)
  /\ arrow = Arrow(DEFAULT_OPTIONS.arrowHeight)
  /\ pair = Pair(TouchDirective("text"), TouchDirective("text"))
  /\ pipeline = Pipeline(Number(MaxOffset), TRUE, <<>>)
  /\ legacy = Legacy("text", TRUE)

\* A step that leaves the directive in state `next`; the counters of the step
\* move to its record.
Step(name, event, over, next) ==
  /\ dir' = [next EXCEPT !.created = 0, !.redone = 0]
  /\ lastOp' = Op(name, event, over, dir, next)
  /\ UNCHANGED <<options, arrow, pair, pipeline, legacy>>

NgAfterViewInit ==
  /\ dir.phase = "constructed"
  /\ Step("ngAfterViewInit", "", FALSE, [ngAfterViewInit(dir) EXCEPT !.phase = "live"])
  /\ wrote' = "none"

\* The host changes the `disabled` input and change detection calls ngOnChanges.
NgOnChanges ==
  /\ dir.phase = "live"
  /\ dir.disabled \/ NumSetups(dir) < MaxSetups
  /\ Step("ngOnChanges", "", FALSE, ngOnChanges([dir EXCEPT !.disabled = ~@]))
  /\ wrote' = "none"

NgOnDestroy ==
  /\ dir.phase = "live"
  /\ Step("ngOnDestroy", "", FALSE, [ngOnDestroy(dir) EXCEPT !.phase = "destroyed"])
  /\ wrote' = "none"

ApiShow ==
  /\ Step("show", "", FALSE, show(dir))
  /\ wrote' = "none"

ApiHide ==
  /\ Step("hide", "", FALSE, hide(dir))
  /\ wrote' = "none"

ApiToggle ==
  /\ Step("toggle", "", FALSE, toggle(dir))
  /\ wrote' = "none"

closeCallback_placeholder(s) == s

\* The $implicit of the embedded view's context: () => this.hide()
closeCallback(s) == hide(s)

\* The template invokes the close callback of its context.
TemplateClose ==
  /\ dir.embdedViewRef # "undefined"
  /\ Step("close", "", FALSE, closeCallback(dir))
  /\ wrote' = "none"

GestureEvent ==
  \E event \in GestureEvents, over \in BOOLEAN :
    /\ over => event = "wheel"
    /\ Step("event", event, over, Dispatch(dir, event, over))
    /\ wrote' = "none"

\* A long-press timer expires and its callback calls show().
TimerKinds(s) ==
  (IF s.touchstartTimeout = "pending" THEN {"held"} ELSE {})
    \cup (IF s.orphanTimers > 0 THEN {"orphan"} ELSE {})

LongPressTimer ==
  \E kind \in TimerKinds(dir) :
    /\ Step("timer", "", FALSE,
            show(IF kind = "held"
                   THEN [dir EXCEPT !.touchstartTimeout = "expired"]
                   ELSE [dir EXCEPT !.orphanTimers = @ - 1]))
    /\ wrote' = "none"

\* autoUpdate calls its update callback (animation frame, scroll, resize) while
\* the subscription is not cancelled; the callback requests a computePosition.
SubKinds(s) ==
  (IF s.cleanupFn = "active" THEN {"held"} ELSE {})
    \cup (IF s.orphanSubs > 0 THEN {"orphan"} ELSE {})

AutoUpdate ==
  \E kind \in SubKinds(dir) :
    /\ Step("autoUpdate", "", FALSE,
            IF kind = "held" THEN [dir EXCEPT !.pendingRef = TRUE]
            ELSE [dir EXCEPT !.pendingOrphan = TRUE])
    /\ wrote' = "none"

\* setTooltipPosition resumes after `await computePosition(...)` and writes
\* left/top to the panel node it was called with (and to its arrow), whether
\* or not that node is still in the document. A node no field references any
\* more has been removed by the destroy() that precedes every render().
PendingKinds(s) ==
  (IF s.pendingRef THEN {"held"} ELSE {})
    \cup (IF s.pendingOrphan THEN {"orphan"} ELSE {})

setTooltipPosition ==
  \E kind \in PendingKinds(dir) :
    /\ Step("setTooltipPosition", "", FALSE,
            IF kind = "held" THEN [dir EXCEPT !.pendingRef = FALSE]
            ELSE [dir EXCEPT !.pendingOrphan = FALSE])
    /\ wrote' = IF kind = "held" THEN dir.tooltipElRef ELSE "removed"

Next ==
  \/ NgAfterViewInit
  \/ NgOnChanges
  \/ NgOnDestroy
  \/ ApiShow
  \/ ApiHide
  \/ ApiToggle
  \/ TemplateClose
  \/ GestureEvent
  \/ LongPressTimer
  \/ AutoUpdate
  \/ setTooltipPosition

Spec == Init /\ [][Next]_vars

--------------------------------------------------------------------------
\* Injection of the global options, for every provider a caller can register

OptionsInit ==
  /\ options \in InitOptions
  /\ arrow = Arrow(DEFAULT_OPTIONS.arrowHeight)
  /\ dir = InitialDirective("hover", "text", FALSE, FALSE, FALSE, TRUE)
  /\ lastOp = Op("init", "", FALSE, dir, dir)
  /\ wrote = "none"
  /\ pair = Pair(TouchDirective("text"), TouchDirective("text"))
  /\ pipeline = Pipeline(Number(MaxOffset), TRUE, <<>>)
  /\ legacy = Legacy("text", TRUE)

Inject ==
  /\ ~options.done
  /\ options' = [options EXCEPT
                   !.injected = inject(options.provided, options.overrides),
                   !.done = TRUE]
  /\ UNCHANGED <<dir, lastOp, wrote, arrow, pair, pipeline, legacy>>

OptionsNext == Inject

OptionsSpec == OptionsInit /\ [][OptionsNext]_vars

--------------------------------------------------------------------------
\* Positioning of the arrow, for every result computePosition can return

ArrowInit ==
  /\ arrow \in InitArrows
  /\ options = Options(FALSE, NoFields)
  /\ dir = InitialDirective("hover", "text", FALSE, FALSE, FALSE, TRUE)
  /\ lastOp = Op("init", "", FALSE, dir, dir)
  /\ wrote = "none"
  /\ pair = Pair(TouchDirective("text"), TouchDirective("text"))
  /\ pipeline = Pipeline(Number(MaxOffset), TRUE, <<>>)
  /\ legacy = Legacy("text", TRUE)

PositionArrow ==
  \E placement \in Placements, arrowX \in Coords, arrowY \in Coords :
    /\ arrow' = positionArrow(arrow, placement, arrowX, arrowY)
    /\ UNCHANGED <<dir, lastOp, wrote, options, pair, pipeline, legacy>>

ArrowNext == PositionArrow

ArrowSpec == ArrowInit /\ [][ArrowNext]_vars

--------------------------------------------------------------------------
\* Two instances in one document

\* renderer.appendChild(document.body, tooltipEl), n times by instance i
appendChild(body, i, n) == body \o [k \in 1..n |-> i]

remove_anyOwner(body, i, n) == SubSeq(body, n + 1, Len(body))

\* tooltipElRef.remove() by instance i, for n nodes its fields referenced:
\* nodes the instance appended itself.
RECURSIVE remove(_, _, _)
remove(body, i, n) ==
  IF n = 0 \/ body = <<>> THEN body
  ELSE IF Head(body) = i THEN remove(Tail(body), i, n - 1)
  ELSE <<Head(body)>> \o remove(Tail(body), i, n)

\* The panel nodes of instance i in the body.
PanelsOf(body, i) == Cardinality({k \in DOMAIN body : body[k] = i})

\* A step of instance i that leaves its fields in state `next`; the nodes it
\* created are appended to the shared body and the nodes it removed leave it.
PairStep(i, next) ==
  LET removed == pair[i].bodyPanels + next.created - next.bodyPanels
  IN  /\ pair' = [pair EXCEPT
                    ![i] = [next EXCEPT !.created = 0, !.redone = 0],
                    !.body = remove(appendChild(@, i, next.created), i, removed),
                    !.actor = i]
      /\ UNCHANGED <<dir, lastOp, wrote, options, arrow, pipeline, legacy>>

PairInit ==
  /\ pair = Pair(TouchDirective("template"), TouchDirective("text"))
  /\ pipeline = Pipeline(Number(MaxOffset), TRUE, <<>>)
  /\ legacy = Legacy("text", TRUE)
  /\ dir = InitialDirective("hover", "text", FALSE, FALSE, FALSE, TRUE)
  /\ lastOp = Op("init", "", FALSE, dir, dir)
  /\ wrote = "none"
  /\ options = Options(FALSE, NoFields)
  /\ arrow = Arrow(DEFAULT_OPTIONS.arrowHeight)

PairAfterViewInit ==
  \E i \in Instances :
    /\ pair[i].phase = "constructed"
    /\ PairStep(i, [ngAfterViewInit(pair[i]) EXCEPT !.phase = "live"])

PairOnChanges ==
  \E i \in Instances :
    /\ pair[i].phase = "live"
    /\ pair[i].disabled \/ NumSetups(pair[i]) < MaxPairSetups
    /\ PairStep(i, ngOnChanges([pair[i] EXCEPT !.disabled = ~@]))

PairOnDestroy ==
  \E i \in Instances :
    /\ pair[i].phase = "live"
    /\ PairStep(i, [ngOnDestroy(pair[i]) EXCEPT !.phase = "destroyed"])

PairShow == \E i \in Instances : PairStep(i, show(pair[i]))

PairHide == \E i \in Instances : PairStep(i, hide(pair[i]))

PairToggle == \E i \in Instances : PairStep(i, toggle(pair[i]))

PairGesture ==
  \E i \in Instances, event \in GestureEvents :
    PairStep(i, Dispatch(pair[i], event, FALSE))

PairTimer ==
  \E i \in Instances :
    /\ pair[i].touchstartTimeout = "pending"
    /\ PairStep(i, show([pair[i] EXCEPT !.touchstartTimeout = "expired"]))

PairNext ==
  \/ PairAfterViewInit
  \/ PairOnChanges
  \/ PairOnDestroy
  \/ PairShow
  \/ PairHide
  \/ PairToggle
  \/ PairGesture
  \/ PairTimer

PairSpec == PairInit /\ [][PairNext]_vars

--------------------------------------------------------------------------
\* The positioning configuration of a render, for every binding of the
\* offset, showArrow and placement inputs

PipelineInit ==
  /\ pipeline \in {Pipeline(offset, showArrow, placement) :
                     offset \in OffsetInputs, showArrow \in BOOLEAN,
                     placement \in Placements \cup {<<>>}}
  /\ dir = InitialDirective("hover", "text", FALSE, FALSE, FALSE, TRUE)
  /\ lastOp = Op("init", "", FALSE, dir, dir)
  /\ wrote = "none"
  /\ options = Options(FALSE, NoFields)
  /\ arrow = Arrow(DEFAULT_OPTIONS.arrowHeight)
  /\ pair = Pair(TouchDirective("text"), TouchDirective("text"))
  /\ legacy = Legacy("text", TRUE)

RenderPipeline ==
  /\ ~pipeline.rendered
  /\ pipeline' = renderPipeline(pipeline)
  /\ UNCHANGED <<dir, lastOp, wrote, options, arrow, pair, legacy>>

PipelineNext == RenderPipeline

PipelineSpec == PipelineInit /\ [][PipelineNext]_vars

--------------------------------------------------------------------------
\* The earlier revision: show() and hide() without visibility guard, hover
\* trigger only, listeners set up once after the first render. Its
\* constructor reads isManual before any input is bound, so the listeners are
\* always set up. render() and destroy() are those of the later revision.

legacyShow(s) == render([s EXCEPT !.isVisible = TRUE])

legacyHide(s) == destroy([s EXCEPT !.isVisible = FALSE])

legacySetupListeners(s) ==
  LET s1 == setupFocusAndBlurEvents(s)
      s2 == IF s.supportsMouseEvents
              THEN addListener(addListener(addListener(s1,
                     "mouseenter"), "mouseleave"), "wheel")
              ELSE addListener(addListener(addListener(
                     disableNativeGestures(s1),
                     "touchstart"), "touchend"), "touchcancel")
  IN  [s2 EXCEPT !.attached = DOMAIN s2.eventListeners]

legacyHandler(s, event, over) ==
  CASE event = "focus" -> legacyShow(s)
    [] event = "blur" -> legacyHide(s)
    [] event = "mouseenter" -> legacyShow(s)
    [] event = "mouseleave" -> legacyHide(s)
    [] event = "wheel" -> IF s.isVisible /\ ~over THEN legacyHide(s) ELSE s
    [] event = "touchstart" -> setTimeout(clearTimeout(s))
    [] event = "touchend" -> legacyHide(clearTimeout(s))
    [] event = "touchcancel" -> legacyHide(clearTimeout(s))

legacyOnDestroy(s) == removeListeners(destroy(s))

\* A step of the earlier revision's instance that leaves it in state `next`.
\* The browser fires focus only on an element without the focus and blur only
\* on the focused one, and likewise mouseenter and mouseleave.
LegacyStep(event, next) ==
  /\ next.bodyPanels <= MaxPanels
  /\ legacy' = [dir |-> [next EXCEPT !.created = 0, !.redone = 0],
                focused |-> IF event \in {"focus", "blur"}
                              THEN event = "focus" ELSE legacy.focused,
                hovered |-> IF event \in {"mouseenter", "mouseleave"}
                              THEN event = "mouseenter" ELSE legacy.hovered,
                event |-> event,
                hadPanels |-> legacy.dir.bodyPanels]
  /\ UNCHANGED <<dir, lastOp, wrote, options, arrow, pair, pipeline>>

LegacyInit ==
  /\ legacy \in {Legacy(content, mouse) :
                   content \in Contents, mouse \in BOOLEAN}
  /\ dir = InitialDirective("hover", "text", FALSE, FALSE, FALSE, TRUE)
  /\ lastOp = Op("init", "", FALSE, dir, dir)
  /\ wrote = "none"
  /\ options = Options(FALSE, NoFields)
  /\ arrow = Arrow(DEFAULT_OPTIONS.arrowHeight)
  /\ pair = Pair(TouchDirective("text"), TouchDirective("text"))
  /\ pipeline = Pipeline(Number(MaxOffset), TRUE, <<>>)

LegacyAfterNextRender ==
  /\ legacy.dir.phase = "constructed"
  /\ LegacyStep("none",
                [legacySetupListeners(legacy.dir) EXCEPT !.phase = "live"])

LegacyGesture ==
  \E event \in GestureEvents \ {"click"}, over \in BOOLEAN :
    /\ over => event = "wheel"
    /\ Listening(legacy.dir, event) # {}
    /\ event = "focus" => ~legacy.focused
    /\ event = "blur" => legacy.focused
    /\ event = "mouseenter" => ~legacy.hovered
    /\ event = "mouseleave" => legacy.hovered
    /\ LegacyStep(event, legacyHandler(legacy.dir, event, over))

LegacyTimer ==
  /\ legacy.dir.touchstartTimeout = "pending"
  /\ LegacyStep("none",
                legacyShow([legacy.dir EXCEPT !.touchstartTimeout = "expired"]))

LegacyOnDestroy ==
  /\ legacy.dir.phase = "live"
  /\ LegacyStep("none",
                [legacyOnDestroy(legacy.dir) EXCEPT !.phase = "destroyed"])

LegacyNext ==
  \/ LegacyAfterNextRender
  \/ LegacyGesture
  \/ LegacyTimer
  \/ LegacyOnDestroy

LegacySpec == LegacyInit /\ [][LegacyNext]_vars

--------------------------------------------------------------------------
\* Properties


Enabled(s) == ~s.manual /\ ~s.isServer /\ s.phase = "live" /\ ~s.disabled

IsEvent(op, event) == op.name = "event" /\ op.event = event

HoverMouse(s) == s.trigger = "hover" /\ s.supportsMouseEvents

HoverTouch(s) == s.trigger = "hover" /\ ~s.supportsMouseEvents

\* C1: after any sequence of show(), hide(), toggle(), gesture events, timer
\* firings and disabled changes, at most one panel node created by the
\* instance is attached to the document body.
C1_AtMostOnePanel ==
  dir.bodyPanels <= 1

\* A click run by two click handlers (after a disable/enable cycle) has hidden
\* and shown again in one dispatch, and one panel is attached.
C1_Witness ==
  /\ IsEvent(lastOp, "click")
  /\ Cardinality(Listening(dir, "click")) = 2
  /\ dir.isVisible
  /\ dir.bodyPanels = 1

PairedGestures(s, shown, hidden) ==
  \/ HoverMouse(s) /\ IsEvent(shown, "mouseenter") /\ IsEvent(hidden, "mouseleave")
  \/ s.trigger = "hover" /\ IsEvent(shown, "focus") /\ IsEvent(hidden, "blur")
  \/ HoverTouch(s) /\ shown.name = "timer"
       /\ (IsEvent(hidden, "touchend") \/ IsEvent(hidden, "touchcancel"))
  \/ s.trigger = "click" /\ IsEvent(shown, "click") /\ IsEvent(hidden, "click")

\* C2 (as claimed): in every trigger mode, when a show gesture that mounted the
\* panel is directly followed by its paired hide gesture (mouseenter/mouseleave,
\* focus/blur, long-press/touchend or touchcancel, click/click), no panel node
\* of the instance remains in the document.
C2_ShowThenHideLeavesNoPanel ==
  [][(Enabled(dir) /\ lastOp.mounted /\ PairedGestures(dir, lastOp, lastOp'))
       => dir'.bodyPanels = 0]_vars

\* C3 (as claimed): when disabled changes to true while the instance is
\* visible, the panel is removed, isVisible() is false and no gesture handler
\* remains attached to the trigger.
C3_DisableWhileVisibleHides ==
  [][(lastOp'.name = "ngOnChanges" /\ dir'.disabled /\ dir.isVisible
        /\ ~dir.manual /\ ~dir.isServer)
       => (dir'.bodyPanels = 0 /\ ~dir'.isVisible /\ dir'.attached = {})]_vars

FirstShowGesture(s, op) ==
  \/ HoverMouse(s) /\ IsEvent(op, "mouseenter")
  \/ s.trigger = "hover" /\ IsEvent(op, "focus")
  \/ s.trigger = "click" /\ IsEvent(op, "click")

JustEnabled(s, op) ==
  op.name = "ngOnChanges" /\ ~s.disabled /\ ~s.manual /\ ~s.isServer

\* C4 (as claimed): re-enabling re-attaches the listeners and creates no panel,
\* and the first show gesture of the trigger mode after re-enabling (here the
\* gesture directly after it: mouseenter, focus or click) mounts a panel,
\* whatever the state was when the instance was disabled.
C4_ReenableThenShowMounts ==
  [][/\ JustEnabled(dir', lastOp') =>
          (dir'.bodyPanels = dir.bodyPanels /\ dir'.attached # {})
     /\ (JustEnabled(dir, lastOp) /\ FirstShowGesture(dir, lastOp')) =>
          dir'.bodyPanels = 1]_vars

\* C5: after ngOnDestroy, in any prior state, no panel node of the instance is
\* in the document, no long-press timer is pending and no gesture handler is
\* attached to the trigger; from then on no handler is attached and no timer is
\* pending, and no timer expiry or gesture event mounts a panel.
C5_DestroyedStaysDown ==
  [][/\ lastOp'.name = "ngOnDestroy" =>
          (dir'.bodyPanels = 0 /\ PendingTimers(dir') = 0 /\ dir'.attached = {})
     /\ dir'.phase = "destroyed" =>
          (PendingTimers(dir') = 0 /\ dir'.attached = {})
     /\ (dir.phase = "destroyed" /\ lastOp'.name \in {"event", "timer"}) =>
          (dir'.bodyPanels = dir.bodyPanels /\ dir'.isVisible = dir.isVisible)]_vars

\* A touchstart arrives after the destruction of an instance whose long-press
\* timer had been armed and whose panel had been mounted.
C5_Witness ==
  /\ dir.phase = "destroyed"
  /\ IsEvent(lastOp, "touchstart")
  /\ dir.touchstartTimeout = "expired"
  /\ dir.tooltipElRef = "removed"
  /\ dir.bodyPanels = 0

\* C6 (as claimed): a positioning computation that resolves after the panel
\* has been torn down writes no coordinates to the removed panel.
C6_LateResultIsNoOp ==
  lastOp.name = "setTooltipPosition" => wrote # "removed"

CallsShowOrHide(s, op) ==
  \/ op.name \in {"show", "hide", "toggle"}
  \/ /\ op.name = "event"
     /\ op.event \in {"focus", "blur", "mouseenter", "mouseleave", "click"}
     /\ Listening(s, op.event) # {}

\* C7 (as claimed): every show() or hide() call, from the public API or from a
\* gesture handler, cancels a pending long-press timer in either visibility
\* state.
C7_ShowHideCancelTimer ==
  [][(CallsShowOrHide(dir, lastOp') /\ PendingTimers(dir) > 0)
       => PendingTimers(dir') = 0]_vars

\* C8 (as claimed): when disabled changes to true while a long-press timer is
\* pending and the panel is not visible, the transition clears the timer, and
\* no timer mounts a panel while the instance is disabled.
C8_DisableClearsTimer ==
  [][/\ (lastOp'.name = "ngOnChanges" /\ dir'.disabled /\ ~dir.isVisible
           /\ PendingTimers(dir) > 0) => PendingTimers(dir') = 0
     /\ (lastOp'.name = "timer" /\ dir.disabled /\ dir.phase = "live")
          => dir'.bodyPanels = dir.bodyPanels]_vars

\* C9: with manual set at initialization no gesture handler is ever attached
\* and no long-press timer is ever armed, so no gesture event on the trigger
\* changes the visibility state or mounts or removes a panel (it changes
\* nothing at all); show(), hide() and toggle() do.
C9_ManualIgnoresGestures ==
  [][dir.manual =>
       /\ dir'.attached = {}
       /\ PendingTimers(dir') = 0
       /\ lastOp'.name = "event" => dir' = dir]_vars

\* A manual instance shown through the API has received a mouseleave and is
\* still visible.
C9_Witness ==
  /\ dir.manual
  /\ dir.phase = "live"
  /\ IsEvent(lastOp, "mouseleave")
  /\ dir.isVisible
  /\ dir.bodyPanels = 1

TouchEnd(op) ==
  IsEvent(op, "touchend") \/ IsEvent(op, "touchcancel")

LongPressRules(s, t, op) ==
  /\ PendingTimers(t) <= 1
  /\ PendingTimers(t) > PendingTimers(s) => IsEvent(op, "touchstart")
  /\ IsEvent(op, "touchstart") =>
       /\ t.bodyPanels = s.bodyPanels /\ t.isVisible = s.isVisible
       /\ Listening(s, "touchstart") # {} => PendingTimers(t) = 1
  /\ (TouchEnd(op) /\ Listening(s, op.event) # {}) =>
       (PendingTimers(t) = 0 /\ ~t.isVisible /\ t.bodyPanels = 0)

\* C10 (as claimed): in hover mode on a touch platform a gesture mounts the
\* panel only through a long-press timer expiry; only touchstart arms a timer,
\* at most one is pending, touchstart itself mounts nothing; a handled touchend
\* or touchcancel leaves no timer pending and hides the panel.
C10_MountedOnlyByLongPress ==
  [][HoverTouch(dir) =>
       /\ LongPressRules(dir, dir', lastOp')
       /\ (lastOp'.mounted /\ lastOp'.name \in {"event", "timer"}) =>
            lastOp'.name = "timer"]_vars

\* C10 (amended): as claimed, except that a focus event mounts the panel too.
C10_LongPressOrFocus ==
  [][HoverTouch(dir) =>
       /\ LongPressRules(dir, dir', lastOp')
       /\ (lastOp'.mounted /\ lastOp'.name \in {"event", "timer"}) =>
            (lastOp'.name = "timer" \/ IsEvent(lastOp', "focus"))]_vars

\* A touchend handled before the delay elapsed has cleared the timer of an
\* instance that has never shown a panel.
C10_Witness ==
  /\ HoverTouch(dir)
  /\ Enabled(dir)
  /\ IsEvent(lastOp, "touchend")
  /\ dir.touchstartTimeout = "expired"
  /\ dir.tooltipElRef = "undefined"

ClickMode(s) == s.trigger = "click"

\* C11 as stated: in click trigger mode, a blur event on the trigger while
\* the panel is visible hides the panel.
C11_BlurHidesInClickMode ==
  [][(/\ ClickMode(dir) /\ Enabled(dir)
      /\ dir.isVisible /\ dir.bodyPanels = 1
      /\ IsEvent(lastOp', "blur"))
     => ~dir'.isVisible /\ dir'.bodyPanels = 0]_vars

\* C11: in click trigger mode no handler is registered for blur, so a blur
\* event on the trigger changes nothing: a visible panel stays mounted and
\* the visibility flag stays true.
C11_BlurIgnoredInClickMode ==
  [][(ClickMode(dir) /\ IsEvent(lastOp', "blur")) => dir' = dir]_vars

C11_Witness ==
  /\ ClickMode(dir) /\ Enabled(dir)
  /\ Listening(dir, "click") # {}
  /\ IsEvent(lastOp, "blur") /\ lastOp.wasVisible
  /\ dir.isVisible /\ dir.bodyPanels = 1

\* C12: toggle() flips the visibility state (hidden to visible with a panel
\* mounted, visible to hidden with the panel removed), two consecutive
\* toggle() calls restore the visibility state and the panel count that held
\* before them, and in click trigger mode on a freshly initialized instance
\* a click performs exactly one toggle.
C12_ToggleFlipsAndRestores ==
  dir.phase # "destroyed" =>
    LET once == toggle(dir)
        twice == toggle(once)
    IN  /\ once.isVisible = ~dir.isVisible
        /\ once.bodyPanels = (IF once.isVisible THEN 1 ELSE 0)
        /\ twice.isVisible = dir.isVisible
        /\ twice.bodyPanels = dir.bodyPanels
        /\ (ClickMode(dir) /\ Enabled(dir) /\ NumSetups(dir) = 1)
             => Dispatch(dir, "click", FALSE) = once

WheelHandled(s, op) ==
  HoverMouse(s) /\ Listening(s, "wheel") # {} /\ IsEvent(op, "wheel")

\* C13: in hover mode on a mouse-capable platform, a wheel event handled
\* while the panel is visible hides the panel if and only if the element
\* under the pointer is neither the trigger nor a descendant of it; a wheel
\* event while hidden, or with the pointer over the trigger or a descendant,
\* changes nothing.
C13_WheelHidesOffTrigger ==
  [][WheelHandled(dir, lastOp') =>
       /\ (dir.isVisible /\ dir.bodyPanels = 1) =>
            ((~dir'.isVisible /\ dir'.bodyPanels = 0) <=> ~lastOp'.over)
       /\ (~dir.isVisible \/ lastOp'.over) => dir' = dir]_vars

C13_Witness ==
  /\ WheelHandled(dir, lastOp) /\ ~lastOp.over
  /\ lastOp.wasVisible /\ lastOp.hadPanels = 1
  /\ ~dir.isVisible /\ dir.bodyPanels = 0

\* A step that built no panel node and repeated no teardown call.
Untouched(op) == op.created = 0 /\ op.redone = 0

\* C16: show() called while the instance is already visible leaves
\* everything unchanged (same panel node, same position-tracking
\* subscription, same embedded view, visibility still true), and hide()
\* called while already hidden leaves the document and the visibility flag
\* unchanged.
C16_RepeatedShowHideNoOp ==
  [][/\ (lastOp'.name = "show" /\ dir.isVisible)
          => dir' = dir /\ Untouched(lastOp')
     /\ (lastOp'.name = "hide" /\ ~dir.isVisible)
          => dir' = dir /\ Untouched(lastOp')]_vars

C16_Witness ==
  /\ lastOp.name = "show" /\ lastOp.wasVisible /\ lastOp.hadPanels = 1
  /\ dir.isVisible /\ dir.bodyPanels = 1
  /\ dir.tooltipElRef = "attached" /\ dir.cleanupFn = "active"
  /\ dir.embdedViewRef = "live"

\* The gesture events of the configured trigger mode.
ModeEvents(s) ==
  IF ClickMode(s) THEN {"click"}
  ELSE IF s.supportsMouseEvents
    THEN {"focus", "blur", "mouseenter", "mouseleave", "wheel"}
    ELSE {"focus", "blur", "touchstart", "touchend", "touchcancel"}

\* C18: after any number of disabled true/false cycles, each gesture event of
\* the configured trigger mode has exactly one handler of the directive
\* attached to the trigger element while enabled, and the listener list
\* holds no entry of a handler that was detached and superseded.
C18_OneHandlerPerEvent ==
  Enabled(dir) =>
    /\ \A event \in ModeEvents(dir) : Cardinality(Listening(dir, event)) = 1
    /\ Len(dir.eventListeners) = Cardinality(ModeEvents(dir))

\* The instance references no panel element, embedded view or cleanup.
ReferencesCleared(s) ==
  /\ s.tooltipElRef = "undefined"
  /\ s.embdedViewRef = "undefined"
  /\ s.cleanupFn = "undefined"

\* C19: every hide destroys the panel and clears the instance's references
\* to it (panel element, embedded view, update-subscription cleanup);
\* consequently no teardown (the destroy at the start of show(), a later hide
\* or ngOnDestroy) re-destroys an already destroyed view or re-invokes the
\* cleanup of an already cancelled subscription.
C19_TeardownClearsAndNeverRepeats ==
  /\ (lastOp.name = "hide" /\ lastOp.wasVisible) => ReferencesCleared(dir)
  /\ lastOp.redone = 0

\* C20: in every reachable state of a live (not yet destroyed) instance, the
\* visibility flag is true if and only if a panel node of the instance is
\* attached to the document.
C20_VisibleIffPanelAttached ==
  dir.phase # "destroyed" => (dir.isVisible <=> dir.bodyPanels = 1)

\* C14: provideFloatingUiOptions merges the overrides over the defaults
\* field by field: each supplied field takes the override value and each
\* omitted field keeps its default (arrowHeight 4, arrowPadding 5,
\* longPressDelay 500); with no provider the injected configuration equals
\* the defaults.
C14_OverridesMergeOverDefaults ==
  options.done =>
    LET defaults == [arrowHeight |-> 4, arrowPadding |-> 5,
                     longPressDelay |-> 500]
    IN  IF options.provided
          THEN /\ DOMAIN options.injected = OptionFields
               /\ \A field \in OptionFields :
                    options.injected[field] =
                      IF field \in DOMAIN options.overrides
                        THEN options.overrides[field]
                        ELSE defaults[field]
          ELSE options.injected = defaults

C14_Witness ==
  /\ options.done /\ options.provided
  /\ DOMAIN options.overrides = {"arrowHeight"}
  /\ options.overrides["arrowHeight"] = 8
  /\ options.injected["arrowHeight"] = 8
  /\ options.injected["arrowPadding"] = 5
  /\ options.injected["longPressDelay"] = 500

\* The side named by a style property.
SideOfProperty(property) ==
  CASE property = "top" -> top
    [] property = "right" -> right
    [] property = "bottom" -> bottom
    [] property = "left" -> left

\* The three placements on a side: plain, -start and -end.
PlacementsOn(side) ==
  {side, side \o <<"-", "s", "t", "a", "r", "t">>, side \o <<"-", "e", "n", "d">>}

\* The style property that carries the offset -arrowHeight px.
Carries(a, property) == a.style[property] = NegPx(a.arrowHeight)

\* C15: for each of the twelve placements returned by the positioning
\* engine, the arrow's offset of -arrowHeight px is set on the side opposite
\* to the placement's side (top gives bottom, bottom gives top, left gives
\* right, right gives left), and no other side carries that offset.
C15_ArrowOnOppositeSide ==
  arrow.positioned =>
    /\ DOMAIN arrow.style = {"left", "top", "right", "bottom"}
    /\ arrow.placement \in PlacementsOn(top) =>
         \A p \in DOMAIN arrow.style : Carries(arrow, p) <=> p = "bottom"
    /\ arrow.placement \in PlacementsOn(bottom) =>
         \A p \in DOMAIN arrow.style : Carries(arrow, p) <=> p = "top"
    /\ arrow.placement \in PlacementsOn(left) =>
         \A p \in DOMAIN arrow.style : Carries(arrow, p) <=> p = "right"
    /\ arrow.placement \in PlacementsOn(right) =>
         \A p \in DOMAIN arrow.style : Carries(arrow, p) <=> p = "left"
    /\ \E side \in Sides : arrow.placement \in PlacementsOn(side)

C15_Witness ==
  /\ arrow.positioned
  /\ arrow.placement = left \o <<"-", "e", "n", "d">>
  /\ arrow.arrowHeight = 4
  /\ arrow.y = <<2>>
  /\ arrow.style["right"] = <<"-", 4, "px">>
  /\ arrow.style["top"] = <<"", 2, "px">>
  /\ arrow.style["left"] = <<>>

\* What the other instance owns: its fields (visibility flag, panel
\* reference, listener list and attached handlers, long-press timer) and
\* its panel nodes in the document body.
SameInstance(before, after, i) ==
  /\ after[i] = before[i]
  /\ PanelsOf(after.body, i) = PanelsOf(before.body, i)

\* C17: with two directive instances A and B on different trigger elements,
\* an operation on one of them (gesture, show, hide, toggle, disable,
\* destroy, timer expiry) leaves the other's panel node, visibility flag,
\* attached handlers and pending timer unchanged.
C17_InstancesAreIsolated ==
  [][\A i \in Instances :
       pair'.actor = i => SameInstance(pair, pair', Other(i))]_vars

C17_Witness ==
  /\ pair.actor = "A"
  /\ ~pair.A.isVisible /\ pair.A.tooltipElRef = "removed"
  /\ pair.B.isVisible /\ pair.B.tooltipElRef = "attached"
  /\ pair.B.touchstartTimeout = "pending"
  /\ pair.B.attached # {}
  /\ pair.body = <<"B">>

\* C21: the autoUpdate subscription of an instance is active if and only if
\* its panel is mounted: show starts exactly one subscription for the new
\* panel, every path that removes the panel (hide, disable while visible,
\* destruction) cancels it, and no recomputation is started for a removed
\* panel.
C21_TrackingIffMounted ==
  /\ dir.cleanupFn = "active" <=> dir.bodyPanels = 1
  /\ dir.orphanSubs = 0
  /\ lastOp.name = "autoUpdate" =>
       lastOp.hadPanels = 1 /\ dir.tooltipElRef = "attached"

C21_Witness ==
  /\ lastOp.name = "ngOnChanges" /\ dir.disabled
  /\ lastOp.wasVisible /\ lastOp.hadPanels = 1
  /\ dir.bodyPanels = 0 /\ dir.cleanupFn = "cancelled"

\* C22: while disabled is true on a non-manual instance (also when it was
\* true at initialization), no gesture handler of the directive is attached
\* to the trigger element, and no gesture event changes the visibility
\* state or mounts a panel.
C22_DisabledHasNoHandlers ==
  [][(dir.disabled /\ ~dir.manual) =>
       /\ dir.attached = {}
       /\ lastOp'.name = "event" => dir' = dir]_vars

C22_Witness ==
  /\ dir.disabled /\ ~dir.manual /\ ~dir.isServer /\ dir.phase = "live"
  /\ NumSetups(dir) >= 1 /\ dir.attached = {}
  /\ \E event \in ModeEvents(dir) : IsEvent(lastOp, event)
  /\ ~lastOp.wasVisible /\ ~dir.isVisible /\ dir.bodyPanels = 0

\* C23: the forced hide on disable applies in manual mode too: when manual
\* is true and the panel was shown through show() or toggle(), disabled
\* changing to true removes the panel and sets the visibility flag to false.
C23_DisableHidesInManualMode ==
  [][(/\ dir.manual /\ dir.isVisible /\ dir.bodyPanels = 1
      /\ lastOp'.name = "ngOnChanges" /\ dir'.disabled)
     => ~dir'.isVisible /\ dir'.bodyPanels = 0]_vars

\* The offset input is a number other than 0, an options object or a
\* function.
OffsetGiven(p) ==
  \/ p.offset.type = "object"
  \/ p.offset.type = "number" /\ p.offset.value # 0

\* C24: the middleware pipeline handed to the positioning engine on show is
\* ordered offset, flip, shift, arrow: offset is present (and first) exactly
\* when the offset input is truthy (absent for 0 or undefined), flip then
\* shift are always present in that order, and arrow is present (and last)
\* exactly when showArrow is true, in which case an arrow element exists in
\* the panel.
C24_PipelineOrder ==
  pipeline.rendered =>
    /\ pipeline.middleware =
         (IF OffsetGiven(pipeline) THEN <<"offset">> ELSE <<>>)
           \o <<"flip", "shift">>
           \o (IF pipeline.showArrow THEN <<"arrow">> ELSE <<>>)
    /\ pipeline.showArrow =>
         \E k \in DOMAIN pipeline.children : pipeline.children[k] = "arrow"

C24_Witness ==
  /\ pipeline.rendered
  /\ pipeline.offset = [type |-> "number", value |-> 6]
  /\ pipeline.showArrow
  /\ pipeline.middleware = <<"offset", "flip", "shift", "arrow">>
  /\ pipeline.children = <<"arrow", "content">>

\* C25: for template content the embedded view's context exposes a close
\* callback: invoking it while the panel built from the template is visible
\* hides the panel (panel removed, visibility false), and invoking it when
\* the instance is already hidden changes nothing.
C25_CloseCallbackHides ==
  [][lastOp'.name = "close" =>
       /\ (dir.isVisible /\ dir.bodyPanels = 1) =>
            ~dir'.isVisible /\ dir'.bodyPanels = 0
       /\ ~dir.isVisible => dir' = dir /\ Untouched(lastOp')]_vars

C25_Witness ==
  /\ lastOp.name = "close" /\ dir.content = "template"
  /\ lastOp.wasVisible /\ lastOp.hadPanels = 1
  /\ ~dir.isVisible /\ dir.bodyPanels = 0
  /\ dir.embdedViewRef = "destroyed"

HideGestures == {"blur", "mouseleave", "touchend", "touchcancel"}

\* C26: in the earlier revision, whose show() and hide() carry no
\* visibility guard, after one or more show gestures without an intervening
\* hide, one hide gesture leaves no panel node of the instance in the
\* document.
C26_UnguardedHideLeavesNoPanel ==
  [][(legacy'.event \in HideGestures /\ legacy.dir.bodyPanels >= 1)
     => legacy'.dir.bodyPanels = 0]_vars

====
